---- MODULE Spec2Model ----
(***************************************************************************)
(* Pregnancy-episode identification of analysis/dataset_definition.py,     *)
(* seen for one patient.  A date is a day number (a natural number), a     *)
(* missing value (Python None / a NULL series value) is None, and a score  *)
(* is an integer number of hundredths (0.3 is 30, 1.0 is 100).             *)
(* An event map (episode_data["events"], episode_data["outcomes"]) is a    *)
(* function from the event types that have a date to that date: a type     *)
(* whose minimum_for_patient() is missing has no entry ("is not None").    *)
(* minimum_of and maximum_of are the library's: the least / greatest of    *)
(* the values given, disregarding missing values.                          *)
(***************************************************************************)
EXTENDS Integers, Sequences, FiniteSets, TLC

VARIABLES clinical_events,       \* the patient's records: a set of <<event type, date>>
          previous_episode_end,  \* cutoff of the next search, None before the first episode
          episodes,              \* the episode list
          episode_num,           \* loop variable of the segmentation loop
          episode_data,          \* the episode under construction
          dataset,               \* the episode variables written to the dataset
          pc,                    \* position in the loop body
          args,                  \* arguments of a direct call of a function
          ret                    \* result of that call

vars == <<clinical_events, previous_episode_end, episodes, episode_num,
          episode_data, dataset, pc, args, ret>>

None == -1

\* ---------------------------------------------------------------- bounds
NumDays == 4
MaxEvents == 4
MaxSignals == 7

\* ------------------------------------------------------- configuration
primary_indicators ==
    [pregnancy_test |-> 30, booking_visit |-> 30, dating_scan |-> 20,
     antenatal_screening |-> 20]

secondary_indicators ==
    [gestational_diabetes |-> 10, preeclampsia |-> 10,
     pregnancy_hypertension |-> 10, hyperemesis |-> 5,
     pregnancy_infection |-> 5]

outcome_indicators ==
    [live_birth |-> 40, stillbirth |-> 30, miscarriage |-> 20, abortion |-> 20,
     ectopic_pregnancy |-> 30, molar_pregnancy |-> 30]

min_episode_gap == 180
max_episode_duration == 294
min_episode_duration == 154
max_outcome_delay == 84

\* range(1, 4): one episode more
RangeStopOneMore == 3 + 1

\* range(1, 3): the episode numbers the loop runs through are 1 .. RangeStop - 1
RangeStop == 3

\* --------------------------------------------------------------- helpers
SetMin(S) == CHOOSE x \in S : \A y \in S : x <= y
SetMax(S) == CHOOSE x \in S : \A y \in S : x >= y

Range(seq) == {seq[i] : i \in 1..Len(seq)}

\* minimum_of(*values): least of the values that are not missing, missing if none
minimum_of(S) == IF S \ {None} = {} THEN None ELSE SetMin(S \ {None})
maximum_of(S) == IF S \ {None} = {} THEN None ELSE SetMax(S \ {None})

Values(m) == {m[k] : k \in DOMAIN m}
EmptyMap == [k \in {} |-> 0]

\* ------------------------------------------------ identify_episode_start
StartCandidates(events) ==
    LET prim == {events[t] : t \in DOMAIN events \cap DOMAIN primary_indicators}
        sec  == {events[t] : t \in DOMAIN events \cap DOMAIN secondary_indicators}
    IN  IF prim # {} THEN prim
        ELSE IF sec # {} THEN sec
        ELSE Values(events)

identify_episode_start(events, prev_end) ==
    IF DOMAIN events = {} THEN None
    ELSE LET earliest_date == minimum_of(StartCandidates(events))
         IN  IF prev_end # None
             THEN minimum_of({earliest_date, prev_end})
             ELSE earliest_date

\* -------------------------------------------------- identify_episode_end
identify_episode_end(events, start_date, outcomes) ==
    IF DOMAIN outcomes = {} THEN start_date
    ELSE LET earliest_outcome_date == minimum_of(Values(outcomes))
             valid_outcome_date == minimum_of({earliest_outcome_date, start_date})
             later_event_dates ==
                 {maximum_of({events[t], earliest_outcome_date}) : t \in DOMAIN events}
         IN  IF later_event_dates # {}
             THEN minimum_of({maximum_of(later_event_dates), earliest_outcome_date})
             ELSE valid_outcome_date

\* -------------------------------------------- calculate_episode_confidence
RECURSIVE SumWeights(_, _)
SumWeights(weights, present) ==
    IF present = {} THEN 0
    ELSE LET t == CHOOSE x \in present : TRUE
         IN  weights[t] + SumWeights(weights, present \ {t})

calculate_episode_confidence(events, outcomes, start_date, end_date) ==
    LET confidence ==
            SumWeights(primary_indicators, DOMAIN events \cap DOMAIN primary_indicators)
          + SumWeights(secondary_indicators, DOMAIN events \cap DOMAIN secondary_indicators)
          + SumWeights(outcome_indicators, DOMAIN outcomes \cap DOMAIN outcome_indicators)
          + 20
    IN  minimum_of({confidence, 100})

\* ----------------------------------------------- the segmentation loop
\* minimum_for_patient() of the records of one type, after the cutoff if any
MinDateAfter(type, cutoff) ==
    LET ds == {e[2] : e \in {x \in clinical_events :
                                x[1] = type /\ (cutoff = None \/ x[2] > cutoff)}}
    IN  IF ds = {} THEN None ELSE SetMin(ds)

CollectMap(types, cutoff) ==
    [t \in {x \in types : MinDateAfter(x, cutoff) # None} |-> MinDateAfter(t, cutoff)]

FreshEpisode(n) ==
    [number |-> n, events |-> EmptyMap, outcomes |-> EmptyMap,
     start_date |-> None, end_date |-> None, confidence |-> 0]

\* The loop head with a closing pass that takes away from the last episode
\* the events dated after its end, whether or not a next episode exists.
LoopHeadMovingLast ==
    /\ pc = "loop"
    /\ IF episode_num < RangeStop
       THEN /\ episode_data' = FreshEpisode(episode_num)
            /\ pc' = "collect"
            /\ UNCHANGED episodes
       ELSE /\ pc' = "done"
            /\ episodes' =
                  [i \in 1..Len(episodes) |->
                     IF i < Len(episodes) THEN episodes[i]
                     ELSE [episodes[i] EXCEPT
                             !.events = [t \in {x \in DOMAIN episodes[i].events :
                                                   episodes[i].events[x] <= episodes[i].end_date}
                                         |-> episodes[i].events[t]]]]
            /\ UNCHANGED episode_data
    /\ UNCHANGED <<clinical_events, previous_episode_end, episode_num,
                   dataset, args, ret>>

LoopHead ==
    /\ pc = "loop"
    /\ IF episode_num < RangeStop
       THEN /\ episode_data' = FreshEpisode(episode_num)
            /\ pc' = "collect"
       ELSE /\ pc' = "done"
            /\ UNCHANGED episode_data
    /\ UNCHANGED <<clinical_events, previous_episode_end, episodes, episode_num,
                   dataset, args, ret>>

\* Collecting the events without the test on the indicator type: the records
\* of every type, outcomes included, go into the events map.
CollectEventsAnyType ==
    /\ pc = "collect"
    /\ episode_data' =
          [episode_data EXCEPT
             !.events = CollectMap({e[1] : e \in clinical_events}, previous_episode_end),
             !.outcomes = CollectMap(DOMAIN outcome_indicators, previous_episode_end)]
    /\ pc' = "identify"
    /\ UNCHANGED <<clinical_events, previous_episode_end, episodes, episode_num,
                   dataset, args, ret>>

CollectEvents ==
    /\ pc = "collect"
    /\ episode_data' =
          [episode_data EXCEPT
             !.events = CollectMap(DOMAIN primary_indicators \cup DOMAIN secondary_indicators,
                                   previous_episode_end),
             !.outcomes = CollectMap(DOMAIN outcome_indicators, previous_episode_end)]
    /\ pc' = "identify"
    /\ UNCHANGED <<clinical_events, previous_episode_end, episodes, episode_num,
                   dataset, args, ret>>

IdentifyStartEnd ==
    /\ pc = "identify"
    /\ LET start == identify_episode_start(episode_data.events, previous_episode_end)
       IN  episode_data' =
              [episode_data EXCEPT
                 !.start_date = start,
                 !.end_date = IF start # None
                              THEN identify_episode_end(episode_data.events, start,
                                                        episode_data.outcomes)
                              ELSE None]
    /\ pc' = "confidence"
    /\ UNCHANGED <<clinical_events, previous_episode_end, episodes, episode_num,
                   dataset, args, ret>>

CalculateConfidence ==
    /\ pc = "confidence"
    /\ episode_data' =
          IF episode_data.start_date # None /\ episode_data.end_date # None
          THEN [episode_data EXCEPT
                  !.confidence = calculate_episode_confidence(
                                    episode_data.events, episode_data.outcomes,
                                    episode_data.start_date, episode_data.end_date)]
          ELSE episode_data
    /\ pc' = "append"
    /\ UNCHANGED <<clinical_events, previous_episode_end, episodes, episode_num,
                   dataset, args, ret>>

\* Appending an episode and moving to it the events it shares with the
\* episode before it.
AppendEpisodeMoving ==
    /\ pc = "append"
    /\ IF episode_data.start_date # None /\ episode_data.end_date # None
       THEN /\ episodes' =
                  Append([i \in 1..Len(episodes) |->
                            IF i < Len(episodes) THEN episodes[i]
                            ELSE [episodes[i] EXCEPT
                                    !.events =
                                       [t \in {x \in DOMAIN episodes[i].events :
                                                 ~(x \in DOMAIN episode_data.events
                                                   /\ episode_data.events[x] = episodes[i].events[x])}
                                        |-> episodes[i].events[t]]]],
                         episode_data)
            /\ previous_episode_end' = episode_data.end_date
       ELSE UNCHANGED <<episodes, previous_episode_end>>
    /\ pc' = "export"
    /\ UNCHANGED <<clinical_events, episode_num, episode_data, dataset, args, ret>>

AppendEpisode ==
    /\ pc = "append"
    /\ IF episode_data.start_date # None /\ episode_data.end_date # None
       THEN /\ episodes' = Append(episodes, episode_data)
            /\ previous_episode_end' = episode_data.end_date
       ELSE UNCHANGED <<episodes, previous_episode_end>>
    /\ pc' = "export"
    /\ UNCHANGED <<clinical_events, episode_num, episode_data, dataset, args, ret>>

\* The end of an iteration that moves to the next episode number only when
\* the iteration found a start, and runs the same number again otherwise.
SetDatasetVariablesRetry ==
    /\ pc = "export"
    /\ dataset' = IF episode_data.start_date # None
                  THEN dataset \cup {episode_data}
                  ELSE dataset
    /\ episode_num' = IF episode_data.start_date # None
                      THEN episode_num + 1 ELSE episode_num
    /\ pc' = "loop"
    /\ UNCHANGED <<clinical_events, previous_episode_end, episodes, episode_data,
                   args, ret>>

SetDatasetVariables ==
    /\ pc = "export"
    /\ dataset' = IF episode_data.start_date # None
                  THEN dataset \cup {episode_data}
                  ELSE dataset
    /\ episode_num' = episode_num + 1
    /\ pc' = "loop"
    /\ UNCHANGED <<clinical_events, previous_episode_end, episodes, episode_data,
                   args, ret>>

\* --------------------------------------------- validate_episode_sequence
\* The return statement is in the body of the loop over the adjacent pairs:
\* the first pass, on the first two episodes, returns.
validate_episode_sequence(eps) ==
    IF eps = <<>> THEN TRUE
    ELSE IF Len(eps) - 1 >= 1
    THEN eps[2].start_date > eps[1].end_date
    ELSE TRUE

\* ------------------------------------------------- classify_outcome_type
primary_outcomes ==
    [live_birth |->
        [weight |-> 40, min_gestational_age |-> 154, max_gestational_age |-> 294,
         required_events |-> {"booking_visit", "antenatal_screening"},
         optional_events |-> {"dating_scan", "antenatal_risk"},
         complications |-> {"postpartum_hemorrhage", "third_degree_tear",
                            "shoulder_dystocia"}],
     stillbirth |->
        [weight |-> 30, min_gestational_age |-> 154, max_gestational_age |-> 294,
         required_events |-> {"booking_visit", "antenatal_screening"},
         optional_events |-> {"dating_scan", "antenatal_risk"},
         complications |-> {"placenta_previa", "placental_abruption"}],
     miscarriage |->
        [weight |-> 20, min_gestational_age |-> 0, max_gestational_age |-> 196,
         required_events |-> {"pregnancy_test"},
         optional_events |-> {"booking_visit", "dating_scan"},
         complications |-> {"pregnancy_bleeding", "pregnancy_infection"}],
     abortion |->
        [weight |-> 20, min_gestational_age |-> 0, max_gestational_age |-> 196,
         required_events |-> {"pregnancy_test"},
         optional_events |-> {"booking_visit"},
         complications |-> {"pregnancy_bleeding", "pregnancy_infection"}],
     ectopic_pregnancy |->
        [weight |-> 30, min_gestational_age |-> 0, max_gestational_age |-> 84,
         required_events |-> {"pregnancy_test"},
         optional_events |-> {"dating_scan"},
         complications |-> {"pregnancy_bleeding", "pregnancy_infection"}],
     molar_pregnancy |->
        [weight |-> 30, min_gestational_age |-> 0, max_gestational_age |-> 196,
         required_events |-> {"pregnancy_test", "dating_scan"},
         optional_events |-> {"booking_visit"},
         complications |-> {"pregnancy_bleeding", "pregnancy_infection"}]]

\* The classifier's "no outcome" result (None in the place of an outcome type).
NoOutcome == "None"

\* The value of the local `confidence` once the four checks of one loop
\* iteration are done; events is the set of event types of the episode.
CandidateConfidence(outcome_type, events, gestational_age) ==
    LET outcome_info == primary_outcomes[outcome_type]
    IN  (IF outcome_info.min_gestational_age <= gestational_age
            /\ gestational_age <= outcome_info.max_gestational_age
         THEN 30 ELSE 0)
      + (IF outcome_info.required_events \subseteq events THEN 30 ELSE 0)
      + (IF outcome_info.optional_events \cap events # {} THEN 20 ELSE 0)
      + (IF outcome_info.complications \cap events # {} THEN 20 ELSE 0)

\* outcomes is the outcomes map in its iteration order: a sequence of
\* <<outcome type, date>>.  best carries best_outcome, best_confidence and
\* the confidence computed for each candidate.
RECURSIVE ClassifyFrom(_, _, _, _, _)
ClassifyFrom(i, events, outcomes, gestational_age, best) ==
    IF i > Len(outcomes) THEN best
    ELSE LET outcome_type == outcomes[i][1]
         IN  IF outcome_type \notin DOMAIN primary_outcomes
             THEN ClassifyFrom(i + 1, events, outcomes, gestational_age, best)
             ELSE LET confidence ==
                          CandidateConfidence(outcome_type, events, gestational_age)
                      scored == [best EXCEPT !.scores = Append(@, <<outcome_type, confidence>>)]
                  IN  ClassifyFrom(i + 1, events, outcomes, gestational_age,
                         IF confidence > best.best_confidence
                         THEN [scored EXCEPT !.best_outcome = outcome_type,
                                             !.best_confidence = confidence]
                         ELSE scored)

classify_outcome_type(events, outcomes, gestational_age) ==
    ClassifyFrom(1, events, outcomes, gestational_age,
                 [best_outcome |-> NoOutcome, best_confidence |-> 0, scores |-> <<>>])

\* ------------------------------------------------------ validate_outcome
birth_weight_min == 500
birth_weight_max == 6000
apgar_min == 0
apgar_max == 10

Issue(type, severity) == [type |-> type, severity |-> severity]
AppendIf(cond, seq, x) == IF cond THEN Append(seq, x) ELSE seq

validate_outcome(outcome_type, outcome_data, events, gestational_age) ==
    IF outcome_type \notin DOMAIN primary_outcomes
    THEN <<Issue("invalid_outcome_type", "high")>>
    ELSE LET outcome_info == primary_outcomes[outcome_type]
             i1 == IF gestational_age < outcome_info.min_gestational_age
                   THEN <<Issue("gestational_age_too_low", "high")>>
                   ELSE IF gestational_age > outcome_info.max_gestational_age
                   THEN <<Issue("gestational_age_too_high", "high")>>
                   ELSE <<>>
             i2 == AppendIf(~(outcome_info.required_events \subseteq events), i1,
                            Issue("missing_required_events", "high"))
             i3 == IF "birth_weight" \in DOMAIN outcome_data
                   THEN IF outcome_data["birth_weight"] < birth_weight_min
                        THEN Append(i2, Issue("birth_weight_too_low", "high"))
                        ELSE IF outcome_data["birth_weight"] > birth_weight_max
                        THEN Append(i2, Issue("birth_weight_too_high", "high"))
                        ELSE i2
                   ELSE i2
         IN  IF "apgar_score" \in DOMAIN outcome_data
             THEN IF outcome_data["apgar_score"] < apgar_min
                  THEN Append(i3, Issue("apgar_score_too_low", "high"))
                  ELSE IF outcome_data["apgar_score"] > apgar_max
                  THEN Append(i3, Issue("apgar_score_too_high", "high"))
                  ELSE i3
             ELSE i3

\* ------------------------------------------------ the quality sub-scores
\* A sub-score is an integer number of twelfths (1.0 is 12): 1 - m/6, 1 - n/3,
\* 1 - n/4 and 1 - n/2 are all whole twelfths.  The overall score is a number
\* of hundred-and-twentieths (1.0 is 120), the weights being tenths.
One == 12
required_events == <<"pregnancy_test", "booking_visit">>
required_outcomes == <<"live_birth", "stillbirth", "miscarriage", "abortion">>
report_min_gestational_age == 154
report_max_gestational_age == 294
max_concurrent_conditions == 5
concurrent_conditions ==
    {"gestational_diabetes", "preeclampsia", "pregnancy_hypertension",
     "hyperemesis", "pregnancy_infection", "pregnancy_bleeding"}

Max0(x) == IF x > 0 THEN x ELSE 0

calculate_completeness_score(completeness_data) ==
    IF completeness_data.missing_required = <<>> THEN One
    ELSE LET total_required == Len(required_events) + Len(required_outcomes)
             missing_count == Len(completeness_data.missing_required)
         IN  Max0(One - (One * missing_count) \div total_required)

\* calculate_consistency_score with max_allowed_issues = 2
calculate_consistency_score_max2(consistency_data) ==
    IF consistency_data.date_issues = <<>> /\ consistency_data.value_issues = <<>>
    THEN One
    ELSE LET total_issues == Len(consistency_data.date_issues)
                             + Len(consistency_data.value_issues)
         IN  Max0(One - (One * total_issues) \div 2)

calculate_consistency_score(consistency_data) ==
    IF consistency_data.date_issues = <<>> /\ consistency_data.value_issues = <<>>
    THEN One
    ELSE LET total_issues == Len(consistency_data.date_issues)
                             + Len(consistency_data.value_issues)
         IN  Max0(One - (One * total_issues) \div 3)

calculate_plausibility_score(plausibility_data) ==
    IF plausibility_data.clinical_issues = <<>> /\ plausibility_data.temporal_issues = <<>>
    THEN One
    ELSE LET total_issues == Len(plausibility_data.clinical_issues)
                             + Len(plausibility_data.temporal_issues)
         IN  Max0(One - (One * total_issues) \div 4)

\* calculate_validation_score without the max(0.0, ...) clamp
calculate_validation_score_unclamped(validation_data) ==
    IF validation_data.issues = <<>> THEN One
    ELSE One - (One * Len(validation_data.issues)) \div 2

calculate_validation_score(validation_data) ==
    IF validation_data.issues = <<>> THEN One
    ELSE Max0(One - (One * Len(validation_data.issues)) \div 2)

\* calculate_overall_quality_score with the weights of consistency and
\* plausibility exchanged
calculate_overall_quality_score_swapped(report) ==
    report.completeness.score * 3 + report.consistency.score * 2
    + report.plausibility.score * 3 + report.validation.score * 2

calculate_overall_quality_score(report) ==
    report.completeness.score * 3 + report.consistency.score * 3
    + report.plausibility.score * 2 + report.validation.score * 2

\* ----------------------------------------------- generate_quality_report
RECURSIVE MissingFrom(_, _, _)
MissingFrom(required, present, i) ==
    IF i > Len(required) THEN <<>>
    ELSE (IF required[i] \in present THEN <<>> ELSE <<required[i]>>)
         \o MissingFrom(required, present, i + 1)

RECURSIVE IssuesOfSeverity(_, _)
IssuesOfSeverity(issues, sev) ==
    IF issues = <<>> THEN <<>>
    ELSE (IF (IF Head(issues).severity \in {"critical", "high", "medium"}
              THEN Head(issues).severity ELSE "low") = sev
          THEN <<Head(issues)>> ELSE <<>>)
         \o IssuesOfSeverity(Tail(issues), sev)

\* A report that could not be built: the call raised.
Raised(error) == [raised |-> TRUE, error |-> error]

generate_quality_report(ed) ==
    LET missing_events == MissingFrom(required_events, DOMAIN ed.events, 1)
        missing_outcomes == MissingFrom(required_outcomes, DOMAIN ed.outcomes, 1)
        completeness ==
            [missing_required |-> missing_events \o missing_outcomes,
             issues |-> [i \in 1..Len(missing_events) |->
                            Issue("missing_required_event", "high")]
                        \o [i \in 1..Len(missing_outcomes) |->
                            Issue("missing_required_outcome", "high")]]
        dated == ed.start_date # None /\ ed.end_date # None
        gestational_age == ed.end_date - ed.start_date
        consistency ==
            [date_issues |->
                IF dated /\ gestational_age < report_min_gestational_age
                THEN <<Issue("gestational_age_too_low", "high")>>
                ELSE IF dated /\ gestational_age > report_max_gestational_age
                THEN <<Issue("gestational_age_too_high", "high")>>
                ELSE <<>>,
             value_issues |-> <<>>,
             issues |-> <<>>]
        conditions_count == Cardinality(DOMAIN ed.events \cap concurrent_conditions)
        plausibility ==
            [clinical_issues |->
                IF conditions_count > max_concurrent_conditions
                THEN <<Issue("too_many_conditions", "medium")>> ELSE <<>>,
             temporal_issues |-> <<>>,
             issues |-> <<>>]
        validation ==
            [issues |->
                IF "outcome_type" \in DOMAIN ed
                THEN validate_outcome(ed.outcome_type,
                        IF "outcome_data" \in DOMAIN ed THEN ed.outcome_data ELSE EmptyMap,
                        DOMAIN ed.events, gestational_age)
                ELSE <<>>]
        scored ==
            [completeness |-> completeness @@
                              [score |-> calculate_completeness_score(completeness)],
             consistency |-> consistency @@
                             [score |-> calculate_consistency_score(consistency)],
             plausibility |-> plausibility @@
                              [score |-> calculate_plausibility_score(plausibility)],
             validation |-> validation @@
                            [score |-> calculate_validation_score(validation)]]
        all_issues == completeness.issues \o consistency.issues
                      \o plausibility.issues \o validation.issues
    IN  IF "outcome_type" \in DOMAIN ed /\ ~dated
        THEN Raised("UnboundLocalError")
        ELSE scored @@
             [raised |-> FALSE,
              episode_number |-> ed.number,
              quality_score |-> calculate_overall_quality_score(scored),
              summary |->
                 [critical_issues |-> IssuesOfSeverity(all_issues, "critical"),
                  high_priority_issues |-> IssuesOfSeverity(all_issues, "high"),
                  medium_priority_issues |-> IssuesOfSeverity(all_issues, "medium"),
                  low_priority_issues |-> IssuesOfSeverity(all_issues, "low")]]

\* ------------------------------------- generate_dataset_quality_summary
\* The name of the bucket a quality score (in 120ths) is counted in.
QualityBucket(score) ==
    IF score >= 108 THEN "excellent"
    ELSE IF score >= 96 THEN "good"
    ELSE IF score >= 84 THEN "fair"
    ELSE IF score >= 72 THEN "poor"
    ELSE "unacceptable"

severities == <<"critical", "high", "medium", "low">>

\* The key of report["summary"] read for a severity: f"{severity}_priority_issues".
SeverityKey(severity) ==
    CASE severity = "critical" -> "critical_priority_issues"
      [] severity = "high" -> "high_priority_issues"
      [] severity = "medium" -> "medium_priority_issues"
      [] severity = "low" -> "low_priority_issues"

\* The dict counts with one more under key.
Increment(counts, key) ==
    [k \in DOMAIN counts \cup {key} |->
        (IF k \in DOMAIN counts THEN counts[k] ELSE 0) + (IF k = key THEN 1 ELSE 0)]

\* The loop over the severities from the i-th on. Each entry of
\* summary["common_issues"] is a list, so the assignment
\* common_issues[severity][issue_type] = 0 of the first issue raises.
RECURSIVE TrackCommonIssues(_, _, _)
TrackCommonIssues(summary, report, i) ==
    IF i > Len(severities) THEN summary
    ELSE IF SeverityKey(severities[i]) \notin DOMAIN report.summary
    THEN Raised("KeyError")
    ELSE IF report.summary[SeverityKey(severities[i])] # <<>>
    THEN Raised("TypeError")
    ELSE TrackCommonIssues(summary, report, i + 1)

RECURSIVE TrackCompleteness(_, _, _)
TrackCompleteness(summary, missing_required, i) ==
    IF i > Len(missing_required) THEN summary
    ELSE LET event == missing_required[i]
             tracked ==
                 IF event \in Range(required_events)
                 THEN [summary EXCEPT !.completeness.missing_required_events =
                                          Increment(@, event)]
                 ELSE IF event \in Range(required_outcomes)
                 THEN [summary EXCEPT !.completeness.missing_required_outcomes =
                                          Increment(@, event)]
                 ELSE summary
         IN  TrackCompleteness(tracked, missing_required, i + 1)

\* The loop over the episodes from the i-th on; an exception ends the call.
RECURSIVE SummariseFrom(_, _, _)
SummariseFrom(summary, eps, i) ==
    IF i > Len(eps) THEN summary
    ELSE LET report == generate_quality_report(eps[i])
         IN  IF report.raised THEN report
             ELSE LET counted == [summary EXCEPT
                                     !.quality_scores[QualityBucket(report.quality_score)] = @ + 1]
                      tracked == TrackCommonIssues(counted, report, 1)
                  IN  IF tracked.raised THEN tracked
                      ELSE SummariseFrom(
                               TrackCompleteness(tracked, report.completeness.missing_required, 1),
                               eps, i + 1)

generate_dataset_quality_summary(eps) ==
    SummariseFrom(
        [raised |-> FALSE,
         total_episodes |-> Len(eps),
         quality_scores |-> [excellent |-> 0, good |-> 0, fair |-> 0, poor |-> 0,
                             unacceptable |-> 0],
         common_issues |-> [critical |-> <<>>, high |-> <<>>, medium |-> <<>>, low |-> <<>>],
         completeness |-> [missing_required_events |-> EmptyMap,
                           missing_required_outcomes |-> EmptyMap],
         consistency |-> [date_issues |-> EmptyMap, value_issues |-> EmptyMap],
         plausibility |-> [clinical_issues |-> EmptyMap, temporal_issues |-> EmptyMap]],
        eps, 1)

\* ------------------------------------------- direct calls of a function
CallClassify ==
    /\ pc = "call_classify"
    /\ ret' = classify_outcome_type(args.events, args.outcomes, args.gestational_age)
    /\ pc' = "classified"
    /\ UNCHANGED <<clinical_events, previous_episode_end, episodes, episode_num,
                   episode_data, dataset, args>>

CallQualityReport ==
    /\ pc = "call_report"
    /\ ret' = generate_quality_report(args)
    /\ pc' = "reported"
    /\ UNCHANGED <<clinical_events, previous_episode_end, episodes, episode_num,
                   episode_data, dataset, args>>

CallValidateSequence ==
    /\ pc = "call_validate"
    /\ ret' = validate_episode_sequence(args)
    /\ pc' = "validated"
    /\ UNCHANGED <<clinical_events, previous_episode_end, episodes, episode_num,
                   episode_data, dataset, args>>

CallQualitySummary ==
    /\ pc = "call_summary"
    /\ ret' = generate_dataset_quality_summary(args)
    /\ pc' = "summarised"
    /\ UNCHANGED <<clinical_events, previous_episode_end, episodes, episode_num,
                   episode_data, dataset, args>>


\* ----------------------------------------------------------- the inputs
DayGrid == <<0, 10, 300, 700, 1000>>
Days == {DayGrid[i] : i \in 1..NumDays}
PatientTypes == {"pregnancy_test", "booking_visit", "gestational_diabetes",
                 "live_birth", "miscarriage"}

RECURSIVE SubsetsUpTo(_, _)
SubsetsUpTo(S, n) ==
    IF n = 0 \/ S = {} THEN {{}}
    ELSE LET x == CHOOSE y \in S : TRUE
             rest == S \ {x}
         IN  SubsetsUpTo(rest, n) \cup {T \cup {x} : T \in SubsetsUpTo(rest, n - 1)}

LoopStart ==
    /\ previous_episode_end = None
    /\ episodes = <<>>
    /\ episode_num = 1
    /\ episode_data = FreshEpisode(0)
    /\ dataset = {}
    /\ args = <<>>
    /\ ret = <<>>

\* A patient with any few records.
InitPatient ==
    /\ clinical_events \in SubsetsUpTo(PatientTypes \X Days, MaxEvents)
    /\ LoopStart
    /\ pc = "loop"

\* A patient with sequential signals: signal i is a pregnancy test, a full
\* episode span and gap after the one before; a signal may be followed by a
\* live birth 280 days later.
SignalDate(i) == i * (min_episode_gap + max_episode_duration + 1)
SignalSlots == 0..(MaxSignals - 1)
SignalPatients ==
    {  {<<"pregnancy_test", SignalDate(i)>> : i \in S}
       \cup {<<"live_birth", SignalDate(i) + 280>> : i \in O}
     : S \in SUBSET SignalSlots, O \in SUBSET SignalSlots }

InitSignals ==
    /\ clinical_events \in {p \in SignalPatients :
                               \A e \in p : e[1] = "live_birth" =>
                                   <<"pregnancy_test", e[2] - 280>> \in p}
    /\ LoopStart
    /\ pc = "loop"

NoPatient ==
    /\ clinical_events = {}
    /\ previous_episode_end = None
    /\ episodes = <<>>
    /\ episode_num = 1
    /\ episode_data = FreshEpisode(0)
    /\ dataset = {}
    /\ ret = <<>>

\* A call of classify_outcome_type: the episode's event types, one or two
\* outcomes in either iteration order, and a gestational age.
ClassifyEvents ==
    {"pregnancy_test", "booking_visit", "antenatal_screening", "dating_scan",
     "pregnancy_bleeding", "postpartum_hemorrhage"}
ClassifyOutcomes == {"live_birth", "miscarriage", "abortion", "termination"}
OutcomeDays == {90, 93, 100, 280}
ClassifyOutcomeMaps ==
    {<<>>}
    \cup {<<<<t, d>>>> : t \in ClassifyOutcomes, d \in OutcomeDays}
    \cup {<<<<t1, d1>>, <<t2, d2>>>> :
            <<t1, d1, t2, d2>> \in {q \in ClassifyOutcomes \X OutcomeDays
                                          \X ClassifyOutcomes \X OutcomeDays :
                                       q[1] # q[3]}}

InitClassify ==
    /\ args \in [events : SUBSET ClassifyEvents,
                 outcomes : ClassifyOutcomeMaps,
                 gestational_age : {-10, 90, 280, 300}]
    /\ NoPatient
    /\ pc = "call_classify"

\* A call of generate_quality_report on an episode record, with or without
\* the optional keys outcome_type and outcome_data.
ConditionPrefix(n) ==
    LET order == <<"gestational_diabetes", "preeclampsia", "pregnancy_hypertension",
                   "hyperemesis", "pregnancy_infection", "pregnancy_bleeding">>
    IN  {order[i] : i \in 1..n}
ReportEvents ==
    {E \cup ConditionPrefix(n) :
        E \in SUBSET {"pregnancy_test", "booking_visit", "antenatal_screening"},
        n \in {0, 5, 6}}
ReportOutcomes ==
    {{}, {"live_birth"}, {"live_birth", "miscarriage"},
     {"live_birth", "stillbirth", "miscarriage", "abortion"}}
ReportOutcomeData ==
    {bw @@ ap : bw \in {EmptyMap} \cup {[k \in {"birth_weight"} |-> w] : w \in {400, 3000, 7000}},
                ap \in {EmptyMap} \cup {[k \in {"apgar_score"} |-> a] : a \in {5, 11}}}
ReportOptional ==
    {EmptyMap}
    \cup {[k \in {"outcome_type"} |-> t] : t \in {"live_birth", "miscarriage", "termination"}}
    \cup {[outcome_type |-> t, outcome_data |-> od] :
            t \in {"live_birth", "miscarriage"}, od \in ReportOutcomeData \ {EmptyMap}}
ReportEpisodes ==
    {[number |-> 1,
      events |-> [t \in E |-> 10],
      outcomes |-> [t \in O |-> 200],
      start_date |-> sd,
      end_date |-> en] @@ opt :
        E \in ReportEvents, O \in ReportOutcomes, sd \in {None, 10},
        en \in {None, 0, 200, 310}, opt \in ReportOptional}

InitReport ==
    /\ args \in ReportEpisodes
    /\ NoPatient
    /\ pc = "call_report"

\* A patient whose records are some of: a pregnancy test on day 0, a live
\* birth on day 280, an antenatal screening and a gestational diabetes record
\* on day 300, a second pregnancy test on day 305 and a live birth on day 585.
ScenarioRecords ==
    {<<"pregnancy_test", 0>>, <<"live_birth", 280>>, <<"antenatal_screening", 300>>,
     <<"gestational_diabetes", 300>>, <<"pregnancy_test", 305>>, <<"live_birth", 585>>}

InitScenario ==
    /\ clinical_events \in SUBSET ScenarioRecords
    /\ LoopStart
    /\ pc = "loop"

\* A call of generate_dataset_quality_summary on a list of episodes: each has
\* both required events or none, all four outcomes or none, dates 280 days
\* apart or no dates, and an outcome type or none.
MaxSummaryEpisodes == 2
SummaryEpisodes ==
    {[number |-> 1,
      events |-> [t \in E |-> 10],
      outcomes |-> [t \in O |-> 290],
      start_date |-> d[1],
      end_date |-> d[2]] @@ opt :
        E \in {{}, {"pregnancy_test", "booking_visit"}},
        O \in {{}, {"live_birth", "stillbirth", "miscarriage", "abortion"}},
        d \in {<<None, None>>, <<10, 290>>},
        opt \in {EmptyMap, [k \in {"outcome_type"} |-> "live_birth"]}}
RECURSIVE ListsUpTo(_, _)
ListsUpTo(S, n) ==
    IF n = 0 THEN {<<>>}
    ELSE ListsUpTo(S, n - 1) \cup {Append(l, x) : l \in {m \in ListsUpTo(S, n - 1) : Len(m) = n - 1}, x \in S}

InitSummary ==
    /\ args \in ListsUpTo(SummaryEpisodes, MaxSummaryEpisodes)
    /\ NoPatient
    /\ pc = "call_summary"

\* A call of validate_episode_sequence on a list of episodes with any start
\* and end dates.
MaxSequenceEpisodes == 3
SequenceEpisodes ==
    {[number |-> 1, start_date |-> sd, end_date |-> en] : sd \in {0, 10, 300}, en \in {0, 10, 300}}

InitValidate ==
    /\ args \in ListsUpTo(SequenceEpisodes, MaxSequenceEpisodes)
    /\ NoPatient
    /\ pc = "call_validate"

Init ==
    \/ InitPatient \/ InitSignals \/ InitScenario \/ InitClassify \/ InitReport
    \/ InitSummary \/ InitValidate

Next ==
    \/ LoopHead
    \/ CollectEvents
    \/ IdentifyStartEnd
    \/ CalculateConfidence
    \/ AppendEpisode
    \/ SetDatasetVariables
    \/ CallClassify
    \/ CallQualityReport
    \/ CallQualitySummary
    \/ CallValidateSequence

Spec == Init /\ [][Next]_vars

\* The statements of the script run one after the other without waiting for
\* anything: a step that can be taken is taken.
FairSpec == Spec /\ WF_vars(Next)

\* ================================================================ claims
IndicatorTypes == DOMAIN primary_indicators \cup DOMAIN secondary_indicators
Signals == {e \in clinical_events : e[1] \in IndicatorTypes}
OutcomeRecords == {e \in clinical_events : e[1] \in DOMAIN outcome_indicators}
Pairs == 1..(Len(episodes) - 1)

\* C1: every two consecutive episodes of the list are strictly ordered and
\* do not overlap: episodes[i].end_date < episodes[i+1].start_date.
C1_StrictlyOrdered ==
    \A i \in Pairs : episodes[i].end_date < episodes[i + 1].start_date

\* C2: in the search for the start of a later episode no candidate is dated
\* at or before previous_episode_end + min_episode_gap, and every episode
\* after the first starts later than the previous end + min_episode_gap.
C2_MinGapRespected ==
    /\ (pc = "identify" /\ previous_episode_end # None) =>
          \A d \in StartCandidates(episode_data.events) :
              d > previous_episode_end + min_episode_gap
    /\ \A i \in Pairs :
          episodes[i + 1].start_date > episodes[i].end_date + min_episode_gap

\* C3 (as stated): at most 5 episodes, and six sequential signals give
\* exactly 5 episodes.
C3_FiveOfSix ==
    /\ Len(episodes) <= 5
    /\ (pc = "done" /\ Cardinality(Signals) = 6) => Len(episodes) = 5

\* C3 (amended): the loop runs for episode numbers 1 and 2 only, so there are
\* at most 2 episodes; six sequential signals, one of them dated after the
\* first episode's end, give exactly 2 episodes.
C3_TwoOfSix ==
    /\ Len(episodes) <= 2
    /\ (pc = "done" /\ Cardinality(Signals) = 6
          /\ \E e \in Signals : Len(episodes) >= 1 /\ e[2] > episodes[1].end_date)
       => Len(episodes) = 2
    /\ (pc = "done" /\ Signals # {}) => Len(episodes) >= 1

C3_Witness ==
    /\ pc = "done"
    /\ Cardinality(Signals) = 6
    /\ Len(episodes) = 2
    /\ episodes[2].start_date # None

\* C4: the gestational age (end_date - start_date) of every episode of the
\* list is at least 0: identify_episode_end never returns a date before the
\* start it was given.
C4_GestationalAgeNonNegative ==
    \A i \in 1..Len(episodes) : episodes[i].end_date - episodes[i].start_date >= 0

\* C6: the start found for an episode is the earliest primary-indicator date
\* of its event map, the earliest secondary-indicator date only when the map
\* has no primary indicator, and no start (None) when it has neither.
C6_StartIsEarliestIndicator ==
    pc = "confidence" =>
       LET events == episode_data.events
           prim == {events[t] : t \in DOMAIN events \cap DOMAIN primary_indicators}
           sec  == {events[t] : t \in DOMAIN events \cap DOMAIN secondary_indicators}
       IN  episode_data.start_date =
              IF prim # {} THEN SetMin(prim)
              ELSE IF sec # {} THEN SetMin(sec)
              ELSE None

\* C7: an episode with a start and no outcome event ends at start + the
\* largest gestational-age upper bound (294 days) and has confidence 0.
C7_FallbackEnd ==
    \A i \in 1..Len(episodes) :
        DOMAIN episodes[i].outcomes = {} =>
            /\ episodes[i].end_date = episodes[i].start_date + max_episode_duration
            /\ episodes[i].confidence = 0

\* C8: an episode with outcome events ends at the earliest outcome dated
\* after its start and no later than start + max_episode_duration; an outcome
\* before the start or beyond that horizon is never its end.
C8_EndWithinHorizon ==
    \A i \in 1..Len(episodes) :
        DOMAIN episodes[i].outcomes # {} =>
            LET start == episodes[i].start_date
                inHorizon == {e[2] : e \in {x \in OutcomeRecords :
                                 x[2] > start /\ x[2] <= start + max_episode_duration}}
            IN  /\ episodes[i].end_date > start
                /\ episodes[i].end_date <= start + max_episode_duration
                /\ inHorizon # {} => episodes[i].end_date = SetMin(inHorizon)

\* C5: the confidence of every episode, the classifier's confidence, the
\* four sub-scores of a quality report and its overall score all lie in
\* [0, 1] (0..100 hundredths, 0..One twelfths, 0..10*One for the overall score).
C5_ScoresInUnitInterval ==
    /\ \A i \in 1..Len(episodes) : episodes[i].confidence \in 0..100
    /\ episode_data.confidence \in 0..100
    /\ pc = "classified" => ret.best_confidence \in 0..100
    /\ (pc = "reported" /\ ~ret.raised) =>
          /\ ret.completeness.score \in 0..One
          /\ ret.consistency.score \in 0..One
          /\ ret.plausibility.score \in 0..One
          /\ ret.validation.score \in 0..One
          /\ ret.quality_score \in 0..(10 * One)

\* A report whose validation issues outnumber the two allowed: the clamp acts.
C5_Witness ==
    /\ pc = "reported"
    /\ ~ret.raised
    /\ Len(ret.validation.issues) > 2
    /\ ret.validation.score = 0

\* C9: the confidence returned for the selected outcome is base_weight of
\* that outcome type plus the bonuses that apply, clamped to [0, 1]; for a
\* pregnancy test on day 0 and a live birth on day 280 alone the outcome is
\* live_birth with base_weight + 0.3.
C9_ConfidenceIsWeightPlusBonuses ==
    pc = "classified" =>
       /\ ret.best_outcome # NoOutcome =>
             ret.best_confidence =
                minimum_of({100, primary_outcomes[ret.best_outcome].weight
                                 + CandidateConfidence(ret.best_outcome, args.events,
                                                       args.gestational_age)})
       /\ (args.events = {"pregnancy_test"} /\ args.outcomes = <<<<"live_birth", 280>>>>
             /\ args.gestational_age = 280) =>
             /\ ret.best_outcome = "live_birth"
             /\ ret.best_confidence = primary_outcomes["live_birth"].weight + 30

\* C10: of two distinct candidate outcomes dated within 7 days of each
\* other, each has its score reduced by 0.3: it is 0.3 below the score the
\* same candidate gets when it is the only outcome of the episode (a
\* candidate with no bonus at all has nothing to lose and stays at 0 or below).
ScoreIn(result, outcome_type) ==
    LET k == CHOOSE n \in 1..Len(result.scores) : result.scores[n][1] = outcome_type
    IN  result.scores[k][2]
Known(outcomes) == {i \in 1..Len(outcomes) : outcomes[i][1] \in DOMAIN primary_outcomes}
Apart(a, b) == IF a >= b THEN a - b ELSE b - a

C10_ConflictPenalty ==
    pc = "classified" =>
       \A i \in Known(args.outcomes), j \in Known(args.outcomes) :
          (i # j /\ Apart(args.outcomes[i][2], args.outcomes[j][2]) <= 7) =>
             LET alone == ScoreIn(classify_outcome_type(args.events, <<args.outcomes[i]>>,
                                                        args.gestational_age),
                                  args.outcomes[i][1])
                 scored == ScoreIn(ret, args.outcomes[i][1])
             IN  IF alone = 0 THEN scored <= 0 ELSE scored = alone - 30

\* C11: whenever the classifier selects a candidate, it is one with the
\* highest score; among those, one with the earliest date; among those, one
\* with the highest base weight, whatever the iteration order of the map.
C11_TieBreakByDateThenWeight ==
    (pc = "classified" /\ ret.best_outcome # NoOutcome) =>
       LET K == Known(args.outcomes)
           score(i) == ScoreIn(ret, args.outcomes[i][1])
           date(i) == args.outcomes[i][2]
           weight(i) == primary_outcomes[args.outcomes[i][1]].weight
           better(i, j) ==
               \/ score(i) > score(j)
               \/ score(i) = score(j) /\ date(i) < date(j)
               \/ score(i) = score(j) /\ date(i) = date(j) /\ weight(i) > weight(j)
           best == {i \in K : \A j \in K : ~better(j, i)}
       IN  ret.best_outcome \in {args.outcomes[i][1] : i \in best}

\* C12: no event (type, date) is in the event map of two different
\* episodes of the patient, in the episode list or in the dataset.
SharedEvents(e1, e2) ==
    {t \in DOMAIN e1.events \cap DOMAIN e2.events : e1.events[t] = e2.events[t]}

C12_EventInOneEpisode ==
    /\ \A i \in 1..Len(episodes), j \in 1..Len(episodes) :
          i # j => SharedEvents(episodes[i], episodes[j]) = {}
    /\ \A e1 \in dataset, e2 \in dataset :
          e1.number # e2.number => SharedEvents(e1, e2) = {}

\* The event map pass 1 gives episode i: the earliest record of each
\* indicator type after the end of the episode before it.
Pass1Events(i) ==
    CollectMap(IndicatorTypes, IF i = 1 THEN None ELSE episodes[i - 1].end_date)

\* Width of the window around the next episode's start: wide for condition
\* events, narrow for antenatal events.
ReattributionWindow(type) ==
    IF type \in DOMAIN secondary_indicators THEN 180 ELSE 21

MovedToNext(i, type, date) ==
    /\ ~(type \in DOMAIN episodes[i].events /\ episodes[i].events[type] = date)
    /\ type \in DOMAIN episodes[i + 1].events
    /\ episodes[i + 1].events[type] = date

\* C13: once the list is complete, an event of episode i inside the window
\* around episode i+1's start has moved to episode i+1 iff it is further from
\* episode i's outcome than from episode i+1's start, and a move leaves an
\* audit entry on episode i; with a pregnancy test on day 0, a live birth on
\* day 280, an antenatal screening on day 300 and a pregnancy test on day 305
\* episode 2 starts on day 305, the screening has moved to it and the audit
\* records the gaps 20 and 5.
C13_ReattributionToNext ==
    pc = "done" =>
       /\ \A i \in Pairs : \A type \in DOMAIN Pass1Events(i) :
             LET date == Pass1Events(i)[type]
                 next_start == episodes[i + 1].start_date
             IN  Apart(date, next_start) <= ReattributionWindow(type) =>
                    /\ MovedToNext(i, type, date)
                          <=> (date - episodes[i].end_date > Apart(next_start, date))
                    /\ MovedToNext(i, type, date) =>
                          "reattribution_audit" \in DOMAIN episodes[i]
       /\ clinical_events = {<<"pregnancy_test", 0>>, <<"live_birth", 280>>,
                             <<"antenatal_screening", 300>>, <<"pregnancy_test", 305>>} =>
             /\ Len(episodes) = 2
             /\ episodes[1].end_date = 280
             /\ episodes[2].start_date = 305
             /\ MovedToNext(1, "antenatal_screening", 300)
             /\ "reattribution_audit" \in DOMAIN episodes[1]
             /\ episodes[1].reattribution_audit.gap_to_current_outcome = 20
             /\ episodes[1].reattribution_audit.gap_to_next_episode = 5

\* C14: the last episode of the list keeps every event pass 1 gave it: none
\* is moved away, however far it lies from the episode's outcome.
C14_LastEpisodeKeepsEvents ==
    episodes # <<>> =>
       episodes[Len(episodes)].events = Pass1Events(Len(episodes))

\* The list is complete and its last episode holds an event dated after
\* the episode's end.
C14_Witness ==
    /\ pc = "done"
    /\ episodes # <<>>
    /\ \E t \in DOMAIN episodes[Len(episodes)].events :
          episodes[Len(episodes)].events[t] > episodes[Len(episodes)].end_date

\* C15: no step changes the event map of an episode of the list: the
\* processing after pass 1 moves zero events (the code has no buffer window
\* at all, which is every window being 0).
C15_NoEventMoves ==
    [][\A i \in 1..Len(episodes) :
          /\ i <= Len(episodes')
          /\ episodes'[i].events = episodes[i].events]_vars

\* Two episodes, the first still holding an event dated at or after the
\* start of the second.
C15_Witness ==
    /\ pc = "done"
    /\ Len(episodes) = 2
    /\ \E t \in DOMAIN episodes[1].events :
          episodes[1].events[t] >= episodes[2].start_date

\* max(0, 1 - issue_count / max_allowed), in twelfths
ExpectedSubScore(issue_count, max_allowed) ==
    IF issue_count >= max_allowed THEN 0
    ELSE (One * (max_allowed - issue_count)) \div max_allowed

\* C16: each sub-score of a report is max(0, 1 - issue_count/max_allowed),
\* max_allowed being the number of required items for completeness, 3 for
\* consistency, 4 for plausibility and 2 for validation, and issue_count the
\* number of issues of that category found for the episode.
C16_SubScoreFormula ==
    (pc = "reported" /\ ~ret.raised) =>
       /\ ret.completeness.score =
             ExpectedSubScore(
                Cardinality(Range(required_events) \ DOMAIN args.events)
                + Cardinality(Range(required_outcomes) \ DOMAIN args.outcomes),
                Len(required_events) + Len(required_outcomes))
       /\ Len(ret.completeness.issues) =
             Cardinality(Range(required_events) \ DOMAIN args.events)
             + Cardinality(Range(required_outcomes) \ DOMAIN args.outcomes)
       /\ ret.consistency.score =
             ExpectedSubScore(Len(ret.consistency.date_issues)
                              + Len(ret.consistency.value_issues), 3)
       /\ ret.plausibility.score =
             ExpectedSubScore(Len(ret.plausibility.clinical_issues)
                              + Len(ret.plausibility.temporal_issues), 4)
       /\ ret.validation.score = ExpectedSubScore(Len(ret.validation.issues), 2)

\* A report with an issue in each of the four categories.
C16_Witness ==
    /\ pc = "reported"
    /\ ~ret.raised
    /\ ret.completeness.issues # <<>>
    /\ ret.consistency.date_issues # <<>>
    /\ ret.plausibility.clinical_issues # <<>>
    /\ Len(ret.validation.issues) = 1
    /\ ret.consistency.score = 8

\* C17: a report's completeness looks only at the episode's outcome type: it
\* is 1.0 when the outcome is recorded and every event required for that type
\* is present, and below 1.0 when an event required for that type is missing.
C17_CompletenessForOutcomeType ==
    (pc = "reported" /\ ~ret.raised /\ "outcome_type" \in DOMAIN args
        /\ args.outcome_type \in DOMAIN primary_outcomes) =>
       LET needed == primary_outcomes[args.outcome_type].required_events
       IN  /\ (args.outcome_type \in DOMAIN args.outcomes
                 /\ needed \subseteq DOMAIN args.events)
              => ret.completeness.score = One
           /\ ~(needed \subseteq DOMAIN args.events)
              => ret.completeness.score < One

\* C18: the overall score of a report is 0.3 completeness + 0.3 consistency
\* + 0.2 plausibility + 0.2 validation of the sub-scores stored in it
\* (sub-scores in twelfths, weights in tenths).
C18_OverallIsWeightedSum ==
    (pc = "reported" /\ ~ret.raised) =>
       ret.quality_score =
          3 * ret.completeness.score + 3 * ret.consistency.score
          + 2 * ret.plausibility.score + 2 * ret.validation.score

\* A report whose four sub-scores are all different.
C18_Witness ==
    /\ pc = "reported"
    /\ ~ret.raised
    /\ Cardinality({ret.completeness.score, ret.consistency.score,
                    ret.plausibility.score, ret.validation.score}) = 4

Buckets == {"excellent", "good", "fair", "poor", "unacceptable"}

\* C19: generate_dataset_quality_summary counts every episode in exactly one
\* bucket, the one of its overall score (excellent >= 0.9, good >= 0.8,
\* fair >= 0.7, poor >= 0.6, unacceptable below), so that the five counts it
\* returns sum to total_episodes.
C19_EveryEpisodeInOneBucket ==
    pc = "summarised" =>
       /\ ~ret.raised
       /\ ret.total_episodes = Len(args)
       /\ \A b \in Buckets :
            ret.quality_scores[b] =
                Cardinality({i \in 1..Len(args) :
                    QualityBucket(generate_quality_report(args[i]).quality_score) = b})
       /\ ret.quality_scores.excellent + ret.quality_scores.good + ret.quality_scores.fair
          + ret.quality_scores.poor + ret.quality_scores.unacceptable = ret.total_episodes

\* The issues of a severity listed in the report of an episode.
ReportedIssues(ed, severity) ==
    LET report == generate_quality_report(ed)
    IN  IF report.raised THEN <<>>
        ELSE IF severity = "critical" THEN report.summary.critical_issues
        ELSE report.summary[SeverityKey(severity)]

\* The same for a list of episodes, as a set of <<episode, position, type>>.
IssuesFound(eps, severity) ==
    UNION {{<<i, j, ReportedIssues(eps[i], severity)[j].type>> :
                j \in 1..Len(ReportedIssues(eps[i], severity))} : i \in 1..Len(eps)}

\* C20: for a non-empty list of episodes generate_dataset_quality_summary
\* returns without raising, and for each severity its common_issues hold, per
\* issue type, the number of issues of that type in the reports of all episodes.
C20_TalliesIssuesWithoutRaising ==
    (pc = "summarised" /\ args # <<>>) =>
       /\ ~ret.raised
       /\ \A s \in Range(severities) :
            \A found \in IssuesFound(args, s) :
               /\ found[3] \in DOMAIN ret.common_issues[s]
               /\ ret.common_issues[s][found[3]] =
                    Cardinality({f \in IssuesFound(args, s) : f[3] = found[3]})

LoopPcs == {"loop", "collect", "identify", "confidence", "append", "export", "done"}

\* C21: a patient without any record of a primary or secondary indicator type
\* gets no episode: identify_episode_start returns None, nothing is appended
\* to the episode list or written to the dataset, and no quality report is
\* generated for the patient.
C21_NoEventsNoEpisodes ==
    (pc \in LoopPcs /\ Signals = {}) =>
       /\ episodes = <<>>
       /\ dataset = {}
       /\ ret = <<>>
       /\ pc \in {"confidence", "append", "export"} => episode_data.start_date = None

\* Such a patient, with outcome records only, at the end of the loop.
C21_Witness ==
    /\ pc = "done"
    /\ Signals = {}
    /\ OutcomeRecords # {}
    /\ episodes = <<>>

\* The outcomes map in every iteration order.
Reorderings(outcomes) ==
    {[i \in 1..Len(outcomes) |-> outcomes[p[i]]] :
        p \in {q \in [1..Len(outcomes) -> 1..Len(outcomes)] :
                 \A i, j \in 1..Len(outcomes) : q[i] = q[j] => i = j}}

\* C22: the result is determined by the input alone: the outcome type and the
\* confidence that classify_outcome_type returns for an episode are the same
\* for every iteration order of the outcomes map.
C22_IndependentOfIterationOrder ==
    pc = "classified" =>
       \A reordered \in Reorderings(args.outcomes) :
          LET again == classify_outcome_type(args.events, reordered, args.gestational_age)
          IN  /\ again.best_outcome = ret.best_outcome
              /\ again.best_confidence = ret.best_confidence

\* C23: missing data never raises: for an episode without events, without an
\* outcome or without start_date or end_date, classify_outcome_type and
\* generate_quality_report return normally.
C23_MissingDataNeverRaises ==
    /\ (pc = "classified" /\ (args.events = {} \/ args.outcomes = <<>>)) =>
          ret.best_outcome \in {NoOutcome} \cup {o[1] : o \in Range(args.outcomes)}
    /\ (pc = "reported" /\ (DOMAIN args.events = {} \/ DOMAIN args.outcomes = {}
                            \/ args.start_date = None \/ args.end_date = None)) =>
          ~ret.raised

SummaryIssues(report) ==
    Range(report.summary.critical_issues) \cup Range(report.summary.high_priority_issues)
    \cup Range(report.summary.medium_priority_issues)
    \cup Range(report.summary.low_priority_issues)

\* C24: an episode whose duration end_date - start_date is negative or outside
\* the plausible gestational-age range is still appended to the episode list,
\* and its quality report records a consistency issue that brings the
\* consistency score below 1.0 and is listed among the issues of the report.
C24_ImplausibleDurationFlagged ==
    /\ (pc = "export" /\ episode_data.start_date # None /\ episode_data.end_date # None) =>
          (episodes # <<>> /\ episodes[Len(episodes)] = episode_data)
    /\ (pc = "reported" /\ ~ret.raised /\ args.start_date # None /\ args.end_date # None
        /\ (args.end_date - args.start_date < report_min_gestational_age
            \/ args.end_date - args.start_date > report_max_gestational_age)) =>
          /\ ret.consistency.score < One
          /\ ret.consistency.date_issues # <<>>
          /\ \A issue \in Range(ret.consistency.date_issues) :
                issue \in Range(ret.consistency.issues) \cup SummaryIssues(ret)

Count(seq, x) == Cardinality({i \in 1..Len(seq) : seq[i] = x})

\* Every issue generate_quality_report recorded, in any list of any category.
RecordedIssues(report) ==
    report.completeness.issues
    \o report.consistency.date_issues \o report.consistency.value_issues
    \o report.plausibility.clinical_issues \o report.plausibility.temporal_issues
    \o report.validation.issues

SeverityList(report, severity) ==
    CASE severity = "critical" -> report.summary.critical_issues
      [] severity = "high" -> report.summary.high_priority_issues
      [] severity = "medium" -> report.summary.medium_priority_issues
      [] severity = "low" -> report.summary.low_priority_issues

\* C29: every issue that generate_quality_report recorded in any category
\* (completeness issues, consistency date_issues and value_issues,
\* plausibility clinical_issues and temporal_issues, validation issues) is in
\* exactly one of the four severity lists of report.summary, the one of its
\* severity.
C29_EveryIssueInItsSeverityList ==
    (pc = "reported" /\ ~ret.raised) =>
       \A issue \in Range(RecordedIssues(ret)) :
          \A s \in Range(severities) :
             Count(SeverityList(ret, s), issue) =
                IF issue.severity = s THEN Count(RecordedIssues(ret), issue) ELSE 0

\* C25: an outcome type without an entry in the configuration tables aborts
\* the run: classify_outcome_type and validate_outcome raise on it, and never
\* skip it or report it as an ordinary issue.
C25_UnconfiguredTypeIsFatal ==
    /\ (pc = "classified"
        /\ \E o \in Range(args.outcomes) : o[1] \notin DOMAIN primary_outcomes) =>
          ("raised" \in DOMAIN ret /\ ret.raised)
    /\ (pc = "reported" /\ "outcome_type" \in DOMAIN args
        /\ args.outcome_type \notin DOMAIN primary_outcomes
        /\ args.start_date # None /\ args.end_date # None) =>
          ret.raised

\* C26: the search for episode i+1 begins only once start and end of episode
\* i are resolved, and uses the end of episode i as its cutoff; and no episode
\* is written to the dataset before its successor is resolved or known not
\* to exist.
C26_ResolvedBeforeSuccessorAndVisible ==
    /\ (pc = "collect" /\ episodes # <<>>) =>
          /\ episodes[Len(episodes)].start_date # None
          /\ episodes[Len(episodes)].end_date # None
          /\ previous_episode_end = episodes[Len(episodes)].end_date
    /\ \A written \in dataset :
          \/ pc = "done"
          \/ written.number + 1 >= RangeStop
          \/ episode_num > written.number + 1
          \/ (episode_num = written.number + 1
              /\ pc \in {"confidence", "append", "export"})

\* C27: the segmentation of a patient terminates: for every input, also one
\* where no start or no outcome is found, the loop is left after at most
\* RangeStop - 1 iterations (the maximum number of episodes per patient).
C27_SegmentationTerminates ==
    /\ [](pc \in LoopPcs => episode_num <= RangeStop)
    /\ (pc \in LoopPcs) ~> (pc = "done" /\ episode_num = RangeStop)

\* The loop is left for a patient with records in whom no start was found.
C27_Witness ==
    /\ pc = "done"
    /\ episode_num = RangeStop
    /\ clinical_events # {}
    /\ episodes = <<>>

\* C28: validate_episode_sequence returns True exactly when every adjacent
\* pair of the list satisfies episodes[i+1].start_date > episodes[i].end_date,
\* whatever the length of the list and the position of the pair.
C28_ValidIffEveryPairOrdered ==
    pc = "validated" =>
       (ret = TRUE <=> \A i \in 1..(Len(args) - 1) :
                          args[i + 1].start_date > args[i].end_date)

\* C30: when the outcomes map holds an outcome type known to the outcome
\* classification, classify_outcome_type returns one of the known types of the
\* map, never None, also when no candidate earns any bonus.
C30_KnownOutcomeAlwaysClassified ==
    (pc = "classified" /\ Known(args.outcomes) # {}) =>
       /\ ret.best_outcome # NoOutcome
       /\ ret.best_outcome \in {args.outcomes[i][1] : i \in Known(args.outcomes)}
====
